---- MODULE Spec2Model ----
(***************************************************************************)
(* Model of crates/corro-types/src/change.rs:                              *)
(*   - Change::estimated_byte_size                                         *)
(*   - ChunkedChanges (new, set_max_buf_size, Iterator::next)              *)
(*   - insert_local_changes                                                *)
(* One action per operation; a call of next() is one atomic step, its loop *)
(* is the recursive operator chunk_loop.                                   *)
(***************************************************************************)
EXTENDS Integers, Sequences, FiniteSets, TLC

\* ---------------------------------------------------------------- bounds
\* sequence numbers of the generated inputs are 0..MaxSeq
MaxSeq == 2
\* generated sources hold at most MaxLen items
MaxLen == 2
\* db versions of the registrar's store are 1..MaxVersion
MaxVersion == 2
\* timestamps stored with a version are 1..MaxTs
MaxTs == 2
\* the node's clock mints at most MaxClock timestamps
MaxClock == 2

\* ---------------------------------------------------------------- Change
\* fixed-width contribution of estimated_byte_size:
\* col_version 8 + db_version 8 + seq 8 + site_id 16 + cl 8 + site_version 8
FixedBytes == 8 + 8 + 8 + 16 + 8 + 8

\* a Change, reduced to what the chunker reads: seq and the lengths that
\* enter the size estimate (table, pk, cid lengths, estimate of val)
mk_change(seq, pk) == [seq |-> seq, table |-> 0, pk |-> pk, cid |-> 0, val |-> 0]

\* Change { seq, ..Default::default() } of the tests
default_change(seq) == mk_change(seq, 0)

estimated_byte_size(c) == c.table + c.pk + c.cid + c.val + FixedBytes

\* items of the source iterator: rusqlite::Result<Change>
OkItem(c) == [ok |-> TRUE, change |-> c]
ErrItem == [ok |-> FALSE, change |-> mk_change(0, 0)]

\* CrsqlSeqRange::new(start, end)
SeqRange(s, e) == [start |-> s, end |-> e]

VARIABLES
  input,            \* the items the source was built from (never changes)
  start_seq,        \* the start_seq given to new() (never changes)
  iter,             \* self.iter: the items not yet consumed
  changes,          \* self.changes
  last_pushed_seq,  \* self.last_pushed_seq
  last_start_seq,   \* self.last_start_seq
  last_seq,         \* self.last_seq
  max_buf_size,     \* self.max_buf_size
  buffered_size,    \* self.buffered_size
  done,             \* self.done
  ret,              \* what the last call of next() returned
  emitted,          \* every Some(Ok(chunk)) returned so far, in order
  emitted_max,      \* max_buf_size during the call that returned emitted[i]
  assert_tripped,   \* assert_always!(self.changes.is_empty()) failed in some call
  book,             \* the BookedVersions behind book_writer: the versions it holds
  clock,            \* agent.clock(): the last timestamp it minted
  reg,              \* the last call of insert_local_changes: what it did and returned
  lock,             \* the RwLock around the BookedVersions: who holds which guard
  pc                \* where each task that uses the ledger is

chunker_vars == <<input, start_seq, iter, changes, last_pushed_seq, last_start_seq,
                  last_seq, max_buf_size, buffered_size, done, ret, emitted,
                  emitted_max, assert_tripped>>

registrar_vars == <<book, clock, reg>>

ledger_vars == <<lock, pc>>

vars == <<chunker_vars, registrar_vars, ledger_vars>>

\* ------------------------------------------------------------ the inputs
Seqs == 0..MaxSeq
\* records with an empty and with a two-byte primary key: two sizes
GenChanges == {mk_change(s, p) : s \in Seqs, p \in {0, 2}}
GenItems == {OkItem(c) : c \in GenChanges} \cup {ErrItem}
GenSources == UNION {[1..n -> GenItems] : n \in 0..MaxLen}
\* for n = 1..MaxLen, n times the mean of the two record sizes: budgets that
\* lie between the sizes of single records and that sums of generated records
\* miss, meet and pass
Budgets == {n * (FixedBytes + 1) : n \in 1..MaxLen}

\* the chunkers built by tests::test_change_chunker
TestChunkers ==
  { [src |-> <<>>, start |-> 0, last |-> 100, max |-> 50],
    [src |-> <<OkItem(default_change(0)), OkItem(default_change(1)),
               OkItem(default_change(2))>>,
     start |-> 0, last |-> 100,
     max |-> estimated_byte_size(default_change(0)) + estimated_byte_size(default_change(1))],
    [src |-> <<OkItem(default_change(0)), OkItem(default_change(1))>>,
     start |-> 0, last |-> 0, max |-> estimated_byte_size(default_change(0))],
    [src |-> <<OkItem(default_change(0)), OkItem(default_change(2))>>,
     start |-> 0, last |-> 100,
     max |-> estimated_byte_size(default_change(0)) + estimated_byte_size(default_change(2))],
    [src |-> <<OkItem(default_change(2)), OkItem(default_change(4)),
               OkItem(default_change(7)), OkItem(default_change(8))>>,
     start |-> 0, last |-> 100, max |-> 100000],
    [src |-> <<OkItem(default_change(2)), OkItem(default_change(4)),
               OkItem(default_change(7)), OkItem(default_change(8))>>,
     start |-> 0, last |-> 10,
     max |-> estimated_byte_size(default_change(2)) + estimated_byte_size(default_change(4))] }

GenChunkers ==
  { [src |-> s, start |-> a, last |-> b, max |-> m] :
      s \in GenSources, a \in Seqs, b \in Seqs, m \in Budgets }

\* ------------------------------------------------------ ChunkedChanges::new
new(src, start, last, max) ==
  /\ iter = src
  /\ changes = <<>>
  /\ last_pushed_seq = 0
  /\ last_start_seq = start
  /\ last_seq = last
  /\ max_buf_size = max
  /\ buffered_size = 0
  /\ done = FALSE

\* a chunker right after new(), not pulled yet
InitChunker(c) ==
  /\ input = c.src
  /\ start_seq = c.start
  /\ new(c.src, c.start, c.last, c.max)
  /\ ret = [kind |-> "init"]
  /\ emitted = <<>>
  /\ emitted_max = <<>>
  /\ assert_tripped = FALSE

\* a ledger, a clock, and no call of insert_local_changes yet
InitRegistrar(b) ==
  /\ book = b
  /\ clock = 0
  /\ reg = [ret |-> [kind |-> "init"], queried |-> <<>>, peek |-> {},
            reached_match |-> FALSE, info |-> [seq |-> {}, ts |-> {}],
            snapshots |-> 0, inserted |-> <<>>, clock_calls |-> 0]

\* the tasks that call insert_local_changes and those that read the ledger
Registrars == {"w1", "w2"}
Readers == {"r1", "r2"}

\* nobody holds a guard
InitLedger ==
  /\ lock = [writer |-> {}, readers |-> {}]
  /\ pc = [p \in Registrars \cup Readers |-> "idle"]

Init ==
  /\ \E c \in GenChunkers \cup TestChunkers : InitChunker(c)
  /\ InitRegistrar({})
  /\ InitLedger

\* ------------------------------------------- ChunkedChanges::set_max_buf_size
set_max_buf_size(size) ==
  /\ max_buf_size' = size
  /\ UNCHANGED <<input, start_seq, iter, changes, last_pushed_seq, last_start_seq,
                 last_seq, buffered_size, done, ret, emitted, emitted_max,
                 assert_tripped>>
  /\ UNCHANGED <<registrar_vars, ledger_vars>>

\* ------------------------------------------------- ChunkedChanges::next
\* the reset left out
reset_buffered_size_kept(size) == size

\* lines 122-123: self.buffered_size = 0
reset_buffered_size(size) == 0

\* the done check left out
is_done_unchecked(d) == FALSE

\* line 111: if self.done
is_done(d) == d

\* done never set
mark_done_never(out) == FALSE

\* line 170: self.done = true, reached when the loop was left by a break
mark_done(out) == out = "break"

\* the early break on the terminal record left out
is_last_seq_ignored(pushed, last) == FALSE

\* line 137: self.last_pushed_seq == self.last_seq
is_last_seq(pushed, last) == pushed = last

\* the budget check left out
budget_reached_never(size, max) == FALSE

\* > for >=
budget_reached_strict(size, max) == size > max

\* line 142: self.buffered_size >= self.max_buf_size
budget_reached(size, max) == size >= max

\* the peek left out
peek_is_none_unchecked(it) == FALSE

\* line 146: self.iter.peek().is_none()
peek_is_none(it) == it = <<>>

\* the + 1 left out
next_start_seq_same(pushed) == pushed

\* line 152: self.last_pushed_seq + 1
next_start_seq(pushed) == pushed + 1

\* the ends of the range swapped
split_chunk_swapped(acc, start, pushed) ==
  [records |-> acc, range |-> SeqRange(pushed, start)]

\* the range started at the first record instead of the chunk start
split_chunk_from_first(acc, start, pushed) ==
  [records |-> acc, range |-> SeqRange(acc[1].seq, pushed)]

\* lines 154-157: the chunk returned on a budget split
split_chunk(acc, start, pushed) == [records |-> acc, range |-> SeqRange(start, pushed)]

\* clone() for drain(..)
drained_cloned(acc) == acc

\* line 155: what self.changes.drain(..) leaves in self.changes
drained(acc) == <<>>

\* lines 173-176: the chunk returned when the loop is left by a break
final_chunk(acc, start, last) == [records |-> acc, range |-> SeqRange(start, last)]

\* line 166: what the accumulator holds when Some(Err(e)) is returned
changes_on_fault(acc) == acc

\* lines 125-168: the loop, on the fields it reads and writes.
\* out = "break": the loop was left by a break; "chunk": line 154 returned;
\* "err": line 166 returned.
RECURSIVE chunk_loop(_)
chunk_loop(s) ==
  IF s.iter = <<>>
  THEN [s EXCEPT !.out = "break"]
  ELSE LET item == Head(s.iter)
           rest == Tail(s.iter)
       IN IF ~item.ok
          THEN [s EXCEPT !.iter = rest, !.changes = changes_on_fault(@), !.out = "err"]
          ELSE LET s1 == [s EXCEPT !.iter = rest,
                                   !.last_pushed_seq = item.change.seq,
                                   !.buffered_size = @ + estimated_byte_size(item.change),
                                   !.changes = Append(@, item.change)]
               IN IF is_last_seq(s1.last_pushed_seq, s1.last_seq)
                  THEN [s1 EXCEPT !.out = "break"]
                  ELSE IF budget_reached(s1.buffered_size, s1.max_buf_size)
                       THEN IF peek_is_none(rest)
                            THEN [s1 EXCEPT !.out = "break"]
                            ELSE [s1 EXCEPT
                                    !.last_start_seq = next_start_seq(s1.last_pushed_seq),
                                    !.chunk = split_chunk(s1.changes, s1.last_start_seq,
                                                          s1.last_pushed_seq),
                                    !.changes = drained(@),
                                    !.out = "chunk"]
                       ELSE chunk_loop(s1)

NoChunk == [records |-> <<>>, range |-> SeqRange(0, 0)]

next ==
  IF is_done(done)
  THEN \* lines 111-113
       /\ ret' = [kind |-> "none"]
       /\ UNCHANGED <<input, start_seq, iter, changes, last_pushed_seq, last_start_seq,
                      last_seq, max_buf_size, buffered_size, done, emitted,
                      emitted_max, assert_tripped>>
       /\ UNCHANGED <<registrar_vars, ledger_vars>>
  ELSE LET r == chunk_loop([iter |-> iter, changes |-> changes,
                            last_pushed_seq |-> last_pushed_seq,
                            last_start_seq |-> last_start_seq,
                            last_seq |-> last_seq,
                            max_buf_size |-> max_buf_size,
                            buffered_size |-> reset_buffered_size(buffered_size),
                            chunk |-> NoChunk, out |-> "none"])
       IN /\ assert_tripped' = (assert_tripped \/ changes # <<>>)
          /\ iter' = r.iter
          /\ changes' = r.changes
          /\ last_pushed_seq' = r.last_pushed_seq
          /\ last_start_seq' = r.last_start_seq
          /\ buffered_size' = r.buffered_size
          /\ done' = mark_done(r.out)
          /\ ret' = CASE r.out = "err" -> [kind |-> "err"]
                      [] r.out = "chunk" -> [kind |-> "chunk", chunk |-> r.chunk]
                      [] OTHER -> [kind |-> "chunk",
                                   chunk |-> final_chunk(r.changes, r.last_start_seq,
                                                         last_seq)]
          /\ emitted' = IF r.out = "err" THEN emitted ELSE Append(emitted, ret'.chunk)
          /\ emitted_max' = IF r.out = "err" THEN emitted_max
                                              ELSE Append(emitted_max, max_buf_size)
          /\ UNCHANGED <<input, start_seq, last_seq, max_buf_size>>
          /\ UNCHANGED <<registrar_vars, ledger_vars>>

Next ==
  \/ next
  \/ \E size \in Budgets : set_max_buf_size(size)

Spec == Init /\ [][Next]_vars

\* the consumer drives the iterator: it keeps calling next() while the call
\* can still change anything
SpecPulls == Spec /\ WF_vars(next)

\* ------------------------------------------------- insert_local_changes
\* Option<T> is the set of at most one T: {} is None, {x} is Some(x)
Versions == 1..MaxVersion
SeqOpt == {{}} \cup {{q} : q \in 0..MaxSeq}
TsOpt == {{}} \cup {{t} : t \in 1..MaxTs}

\* agent.actor_id()
ActorId == "local"

\* where a call can fail: prepare_cached and query_row of the two SELECTs,
\* and insert_db
FailPoints == {"prepare_peek", "query_peek", "prepare_max", "query_max", "insert_db"}

\* what the store and the ledger answer during one call
StoreAnswers ==
  [fail : FailPoints \cup {"none"}, db_version : Versions, seq : SeqOpt, ts : TsOpt]

\* BookedVersions::snapshot: a view of the ledger that insert_db changes
snapshot(b) == b

\* VersionsSnapshot::insert_db: the versions of the ranges become booked
insert_db(snap, ranges) == snap \cup UNION {r.start .. r.end : r \in ranges}

\* ChangeError::Rusqlite { source, actor_id, version }
ChangeError(actor_id, version) ==
  [kind |-> "err", actor_id |-> actor_id, version |-> version]

\* lines 198-208: the fault of the peek query
peek_error == ChangeError({ActorId}, {})

\* lines 214-226: the fault of the MAX(seq), MAX(ts) query
max_error(db_version) == ChangeError({ActorId}, {})

\* lines 246-250: the fault of insert_db
insert_error(db_version) == ChangeError({ActorId}, {db_version})

\* lines 196-208: the statements run for the peek,
\* SELECT crsql_peek_next_db_version()
peek_queries == <<"peek">>

\* MAX(seq) and MAX(ts) fetched by a statement each
max_queries_split == <<"max_seq", "max_ts">>

\* lines 210-226: the statements run for the extent,
\* SELECT MAX(seq), MAX(ts) FROM crsql_changes WHERE site_id = ? AND db_version = ?
max_queries == <<"max">>

\* the statements of lines 196-226 that are SELECTs
ReadOnlyQueries == {"peek", "max"}

\* the snapshot taken before the match
takes_snapshot_always(info) == TRUE

\* line 244: book_writer.snapshot() is called in the (Some(last_seq), ts) arm only
takes_snapshot(info) == info.seq # {}

\* lines 228-234: the arm (Some(last_seq), ts) of the match registers
registers(info) == info.seq # {}

\* line 234: last_seq bound by the pattern Some(last_seq); MAX(seq) of the rows
unwrap_seq(opt) == CHOOSE q \in opt : TRUE

\* the clock's last timestamp reused instead of a new one
ts_or_last(opt, now) == IF opt = {} THEN now ELSE CHOOSE t \in opt : TRUE

\* lines 235-238: ts.unwrap_or_else(|| Timestamp::from(agent.clock().new_timestamp()))
ts_or_new(opt, now) == IF opt = {} THEN now + 1 ELSE CHOOSE t \in opt : TRUE

\* a range from the first version up to db_version
db_versions_from_first(db_version) == [start |-> 1, end |-> db_version]

\* line 242: db_version..=db_version
db_versions(db_version) == [start |-> db_version, end |-> db_version]

\* lines 194-259, on the answers a: the new value of reg
run_insert_local_changes(a) ==
  LET info == [seq |-> a.seq, ts |-> a.ts]
      idle == [ret |-> [kind |-> "init"], queried |-> <<>>, peek |-> {},
               reached_match |-> FALSE, info |-> [seq |-> {}, ts |-> {}],
               snapshots |-> 0, inserted |-> <<>>, clock_calls |-> 0]
      peeked == [idle EXCEPT !.queried = peek_queries, !.peek = {a.db_version}]
  IN CASE a.fail = "prepare_peek" -> [idle EXCEPT !.ret = peek_error]
       [] a.fail = "query_peek" ->
            [idle EXCEPT !.ret = peek_error, !.queried = peek_queries]
       [] a.fail = "prepare_max" ->
            [peeked EXCEPT !.ret = max_error(a.db_version)]
       [] a.fail = "query_max" ->
            [peeked EXCEPT !.ret = max_error(a.db_version),
                           !.queried = peek_queries \o max_queries]
       [] OTHER ->
            LET m == [peeked EXCEPT !.queried = peek_queries \o max_queries,
                                  !.reached_match = TRUE,
                                  !.info = info,
                                  !.snapshots = IF takes_snapshot(info) THEN 1 ELSE 0]
            IN IF ~registers(info)
               THEN [m EXCEPT !.ret = [kind |-> "ok_none"]]
               ELSE LET snap == insert_db(snapshot(book), {db_versions(a.db_version)})
                        r == [m EXCEPT !.inserted = <<db_versions(a.db_version)>>,
                                       !.clock_calls = IF a.ts = {} THEN 1 ELSE 0]
                    IN IF a.fail = "insert_db"
                       THEN [r EXCEPT !.ret = insert_error(a.db_version)]
                       ELSE [r EXCEPT !.ret =
                               [kind |-> "ok_some",
                                db_version |-> a.db_version,
                                last_seq |-> unwrap_seq(a.seq),
                                ts |-> ts_or_new(a.ts, clock),
                                snap |-> snap]]

\* lines 194-259: what a call leaves behind
registration ==
  /\ \E a \in StoreAnswers :
        LET r == run_insert_local_changes(a)
        IN /\ r.clock_calls > 0 => clock < MaxClock
           /\ reg' = r
           /\ clock' = clock + r.clock_calls
  /\ UNCHANGED book
  /\ UNCHANGED chunker_vars

insert_local_changes ==
  /\ registration
  /\ UNCHANGED ledger_vars

NextRegistrar == insert_local_changes

\* the registrar over any ledger; the chunker is left as built over no items
RegistrarInit ==
  /\ InitChunker([src |-> <<>>, start |-> 0, last |-> 0, max |-> 0])
  /\ \E b \in SUBSET Versions : InitRegistrar(b)
  /\ InitLedger

SpecRegistrar == RegistrarInit /\ [][NextRegistrar]_vars

\* ------------------------------------- the callers of insert_local_changes
\* RwLock::write: granted when nobody holds a guard
write_lock(p) ==
  /\ pc[p] = "idle"
  /\ lock.writer = {} /\ lock.readers = {}
  /\ lock' = [lock EXCEPT !.writer = {p}]
  /\ pc' = [pc EXCEPT ![p] = "locked"]
  /\ UNCHANGED <<chunker_vars, registrar_vars>>

\* the guard dropped
write_unlock(p) ==
  /\ pc[p] = "locked"
  /\ lock' = [lock EXCEPT !.writer = {}]
  /\ pc' = [pc EXCEPT ![p] = "idle"]
  /\ UNCHANGED <<chunker_vars, registrar_vars>>

\* RwLock::read: granted when nobody holds the write guard
read_lock(p) ==
  /\ pc[p] = "idle"
  /\ lock.writer = {}
  /\ lock' = [lock EXCEPT !.readers = @ \cup {p}]
  /\ pc' = [pc EXCEPT ![p] = "reading"]
  /\ UNCHANGED <<chunker_vars, registrar_vars>>

read_unlock(p) ==
  /\ pc[p] = "reading"
  /\ lock' = [lock EXCEPT !.readers = @ \ {p}]
  /\ pc' = [pc EXCEPT ![p] = "idle"]
  /\ UNCHANGED <<chunker_vars, registrar_vars>>

\* a function that took the ledger without a guard
holds_write_guard_unchecked(p) == TRUE

\* line 192: book_writer: &mut RwLockWriteGuard<'_, BookedVersions>: the
\* caller passes a write guard it holds
holds_write_guard(p) == lock.writer = {p}

\* lines 189-193: the call, entered with the caller's guard borrowed
call_insert_local_changes(p) ==
  /\ pc[p] \in {"idle", "locked"}
  /\ holds_write_guard(p)
  /\ pc' = [pc EXCEPT ![p] = "registering"]
  /\ UNCHANGED <<lock, chunker_vars, registrar_vars>>

\* lines 194-259: the call runs and returns; the guard is the caller's again
return_insert_local_changes(p) ==
  /\ pc[p] = "registering"
  /\ registration
  /\ pc' = [pc EXCEPT ![p] = IF lock.writer = {p} THEN "locked" ELSE "idle"]
  /\ UNCHANGED lock

NextLedger ==
  \/ \E p \in Registrars :
        \/ write_lock(p)
        \/ call_insert_local_changes(p)
        \/ return_insert_local_changes(p)
        \/ write_unlock(p)
  \/ \E p \in Readers : read_lock(p) \/ read_unlock(p)

\* registrar and reader tasks around one ledger
LedgerInit ==
  /\ InitChunker([src |-> <<>>, start |-> 0, last |-> 0, max |-> 0])
  /\ InitRegistrar({})
  /\ InitLedger

SpecLedger == LedgerInit /\ [][NextLedger]_vars

\* ================================================================ claims
\* ---------------------------------------------------------------- helpers
NoFaults(src) == \A i \in 1..Len(src) : src[i].ok

Records(src) == [i \in 1..Len(src) |-> src[i].change]

StrictlyIncreasing(src) ==
  \A i \in 1..Len(src) : \A j \in 1..Len(src) :
     i < j => src[i].change.seq < src[j].change.seq

InSpan(src, lo, hi) ==
  \A i \in 1..Len(src) : lo <= src[i].change.seq /\ src[i].change.seq <= hi

\* a fault-free source of unique, ordered sequence numbers of [start_seq, last_seq]
StreamOfSpan ==
  /\ start_seq <= last_seq
  /\ NoFaults(input)
  /\ StrictlyIncreasing(input)
  /\ InSpan(input, start_seq, last_seq)

Last(q) == q[Len(q)]

RangeSet(r) == r.start .. r.end

RECURSIVE ConcatRecords(_)
ConcatRecords(chunks) ==
  IF chunks = <<>> THEN <<>>
  ELSE Head(chunks).records \o ConcatRecords(Tail(chunks))

\* estimated size of the first k items of a source
RECURSIVE SizeOfFirst(_, _)
SizeOfFirst(src, k) ==
  IF k = 0 THEN 0
  ELSE SizeOfFirst(src, k - 1) + estimated_byte_size(src[k].change)

\* in the current state a pull reads k records, none of them the terminal one,
\* and the running estimate reaches max_buf_size exactly at the k-th
BudgetHitAt(k) ==
  /\ ~done
  /\ k \in 1..Len(iter)
  /\ \A j \in 1..k : iter[j].ok /\ iter[j].change.seq # last_seq
  /\ SizeOfFirst(iter, k) >= max_buf_size
  /\ \A j \in 1..(k - 1) : SizeOfFirst(iter, j) < max_buf_size

\* in the current state a pull reads k records without filling the budget
\* before the k-th, which is the terminal one
TerminalAt(k) ==
  /\ ~done
  /\ k \in 1..Len(iter)
  /\ \A j \in 1..k : iter[j].ok
  /\ \A j \in 1..(k - 1) : /\ iter[j].change.seq # last_seq
                             /\ SizeOfFirst(iter, j) < max_buf_size
  /\ iter[k].change.seq = last_seq

\* the step is a call of next(): set_max_buf_size changes max_buf_size only
PullStep == max_buf_size' = max_buf_size

\* ---------------------------------------------------------------- C1
\* C1: on a fault-free source of unique ordered sequence numbers of
\* [start_seq, last_seq] the emitted ranges, in emission order, tile the
\* span: the first starts at start_seq, each later one at the previous
\* end + 1, none is inverted or leaves the span, they are pairwise disjoint,
\* and once the chunker is done the last ends at last_seq and their union is
\* [start_seq, last_seq].  The chaining needs no ordering of the source.
RangeCoverage ==
  /\ NoFaults(input) =>
       /\ emitted # <<>> => emitted[1].range.start = start_seq
       /\ \A i \in 2..Len(emitted) :
             emitted[i].range.start = emitted[i - 1].range.end + 1
       /\ done => emitted # <<>> /\ Last(emitted).range.end = last_seq
  /\ StreamOfSpan =>
       /\ \A i \in 1..Len(emitted) :
             /\ emitted[i].range.start <= emitted[i].range.end
             /\ start_seq <= emitted[i].range.start
             /\ emitted[i].range.end <= last_seq
       /\ \A i \in 1..Len(emitted) : \A j \in 1..Len(emitted) :
             i # j => RangeSet(emitted[i].range) \cap RangeSet(emitted[j].range) = {}
       /\ ~done => \A i \in 1..Len(emitted) : emitted[i].range.end < last_seq
       /\ done => UNION {RangeSet(emitted[i].range) : i \in 1..Len(emitted)}
                    = start_seq .. last_seq

\* a finished run over a stream of the span that was split at least once
RangeCoverageWitness ==
  /\ StreamOfSpan
  /\ done
  /\ Len(emitted) >= 2
  /\ start_seq > 0

\* ---------------------------------------------------------------- C2
\* C2 as stated: on any fault-free source the records of the emitted chunks,
\* concatenated, are the input records once the chunker is done.
RecordPreservationAnySource ==
  (done /\ NoFaults(input)) => ConcatRecords(emitted) = Records(input)

\* C2: on a fault-free source in which no record but the last one carries
\* last_seq, the records of the emitted chunks, concatenated, followed by the
\* records still in the source, are the input records; once the chunker is
\* done the source is empty and the emitted records are the input records.
RecordPreservation ==
  (/\ NoFaults(input)
   /\ \A i \in 1..(Len(input) - 1) : input[i].change.seq # last_seq)
  => /\ ConcatRecords(emitted) \o Records(iter) = Records(input)
     /\ done => iter = <<>> /\ ConcatRecords(emitted) = Records(input)

RecordPreservationWitness ==
  /\ NoFaults(input)
  /\ \A i \in 1..(Len(input) - 1) : input[i].change.seq # last_seq
  /\ done
  /\ Len(emitted) >= 2
  /\ Len(Last(emitted).records) >= 1

\* ---------------------------------------------------------------- C3
\* C3: once done is set, no step unsets it, consumes from the source, emits
\* or changes a chunk, touches the accumulator or trips the assertion, and
\* a call of next() returns None.
EndOfSequenceAbsorbing ==
  [][done => /\ done'
             /\ iter' = iter
             /\ emitted' = emitted
             /\ changes' = changes
             /\ assert_tripped' = assert_tripped
             /\ (ret' # ret => ret' = [kind |-> "none"])
             /\ (ret.kind = "none" => ret' = ret)]_vars

\* next() was called after the final chunk, whose records are still in the
\* accumulator, and returned None without tripping the assertion
EndOfSequenceWitness ==
  /\ done
  /\ ret = [kind |-> "none"]
  /\ changes # <<>>
  /\ ~assert_tripped

\* ---------------------------------------------------------------- C4
\* C4: over a source without items the chunker has either not been pulled
\* yet or has emitted exactly the chunk ([], [start_seq, last_seq]), is done,
\* and its last return is that chunk or None.
EmptyInput ==
  input = <<>> =>
    \/ ~done /\ emitted = <<>> /\ ret = [kind |-> "init"]
    \/ /\ done
       /\ emitted = << [records |-> <<>>, range |-> SeqRange(start_seq, last_seq)] >>
       /\ ret \in {[kind |-> "chunk", chunk |-> emitted[1]], [kind |-> "none"]}

EmptyInputWitness ==
  /\ input = <<>>
  /\ start_seq > 0
  /\ Len(emitted) = 1
  /\ ret = [kind |-> "none"]

\* ---------------------------------------------------------------- C5
\* C5: a pull during which the running estimate reaches or passes
\* max_buf_size at the k-th record, that record not being the terminal one
\* and the source holding a further item, returns the accumulated records
\* with range [chunk start, seq of the k-th record], sets the next chunk
\* start to that seq + 1, leaves the accumulator empty and the chunker not
\* done, and consumes exactly those k records.
InclusiveBudgetSplit ==
  [][\A k \in 1..Len(iter) :
       (PullStep /\ BudgetHitAt(k) /\ k < Len(iter)) =>
          /\ ret' = [kind |-> "chunk",
                     chunk |-> [records |-> changes \o Records(SubSeq(iter, 1, k)),
                                range |-> SeqRange(last_start_seq, iter[k].change.seq)]]
          /\ emitted' = Append(emitted, ret'.chunk)
          /\ last_start_seq' = iter[k].change.seq + 1
          /\ changes' = <<>>
          /\ ~done'
          /\ iter' = SubSeq(iter, k + 1, Len(iter))]_vars

\* a split chunk of two records whose estimate is exactly the budget
InclusiveBudgetSplitWitness ==
  /\ ret.kind = "chunk"
  /\ ~done
  /\ Len(ret.chunk.records) = 2
  /\ buffered_size = max_buf_size
  /\ changes = <<>>

\* ---------------------------------------------------------------- C6
\* C6: a pull that accumulates a record with seq = last_seq returns the
\* accumulated records with a range ending at last_seq and sets done,
\* whatever the budget and the rest of the source; such a record is never
\* in a chunk other than the last one emitted, which ends at last_seq.
TerminalRecord ==
  /\ [][\A k \in 1..Len(iter) :
          (PullStep /\ TerminalAt(k)) =>
             /\ done'
             /\ ret' = [kind |-> "chunk",
                        chunk |-> [records |-> changes \o Records(SubSeq(iter, 1, k)),
                                   range |-> SeqRange(last_start_seq, last_seq)]]
             /\ emitted' = Append(emitted, ret'.chunk)
             /\ iter' = SubSeq(iter, k + 1, Len(iter))]_vars
  /\ [](\A i \in 1..Len(emitted) :
          (emitted[i].records # <<>> /\ Last(emitted[i].records).seq = last_seq)
          => done /\ i = Len(emitted) /\ emitted[i].range.end = last_seq)

\* the terminal record came before the budget was reached and with items
\* left in the source; the next call returned None
TerminalRecordWitness ==
  /\ done
  /\ ret = [kind |-> "none"]
  /\ iter # <<>>
  /\ changes # <<>>
  /\ Last(changes).seq = last_seq
  /\ buffered_size < max_buf_size
  /\ Last(emitted).records = changes

\* ---------------------------------------------------------------- C7
\* C7: on a fault-free source of unique ordered sequence numbers of
\* [start_seq, last_seq], every chunk's range starts at the chunk start
\* (start_seq, or the seq of the previous chunk's last record + 1), which is
\* at or below the seq of its first record; a chunk that is not the final
\* one ends at the seq of its last record, the final one at last_seq; and
\* records 2,4,7,8 over [0,10] under the budget size(r2)+size(r4) give
\* ([r2,r4],[0,4]) then ([r7,r8],[5,10]).
GapTolerance ==
  /\ StreamOfSpan =>
       \A i \in 1..Len(emitted) :
          /\ emitted[i].range.start =
                IF i = 1 THEN start_seq ELSE Last(emitted[i - 1].records).seq + 1
          /\ emitted[i].records # <<>> =>
                emitted[i].range.start <= emitted[i].records[1].seq
          /\ emitted[i].range.end =
                IF done /\ i = Len(emitted) THEN last_seq
                ELSE Last(emitted[i].records).seq
  /\ (/\ Records(input) = <<default_change(2), default_change(4),
                            default_change(7), default_change(8)>>
      /\ NoFaults(input)
      /\ start_seq = 0
      /\ last_seq = 10
      /\ done
      /\ \A i \in 1..Len(emitted_max) :
            emitted_max[i] = estimated_byte_size(default_change(2))
                               + estimated_byte_size(default_change(4)))
     => emitted = << [records |-> <<default_change(2), default_change(4)>>,
                      range |-> SeqRange(0, 4)],
                     [records |-> <<default_change(7), default_change(8)>>,
                      range |-> SeqRange(5, 10)] >>

\* a finished run with a split, a missing sequence number before the first
\* record of the first chunk, one between the chunks' records and a missing
\* tail
GapToleranceWitness ==
  /\ StreamOfSpan
  /\ done
  /\ Len(emitted) = 2
  /\ emitted[1].range.start < emitted[1].records[1].seq
  /\ emitted[2].records # <<>>
  /\ emitted[2].range.start < emitted[2].records[1].seq
  /\ Last(emitted[2].records).seq < emitted[2].range.end

\* ---------------------------------------------------------------- C8
\* C8: a pull during which the running estimate reaches or passes
\* max_buf_size at a record that is the last item of the source returns the
\* accumulated records as the final chunk, with range
\* [chunk start, last_seq], and sets done.
DeferredSplit ==
  [][\A k \in 1..Len(iter) :
       (PullStep /\ BudgetHitAt(k) /\ k = Len(iter)) =>
          /\ done'
          /\ ret' = [kind |-> "chunk",
                     chunk |-> [records |-> changes \o Records(iter),
                                range |-> SeqRange(last_start_seq, last_seq)]]
          /\ emitted' = Append(emitted, ret'.chunk)
          /\ last_start_seq' = last_start_seq
          /\ iter' = <<>>]_vars

\* the final chunk was returned with the budget reached on a record that
\* is not the terminal one, the source being exhausted
DeferredSplitWitness ==
  /\ done
  /\ ret.kind = "chunk"
  /\ iter = <<>>
  /\ ret.chunk.records # <<>>
  /\ Last(ret.chunk.records).seq # last_seq
  /\ buffered_size >= max_buf_size
  /\ Len(emitted) >= 2

\* ---------------------------------------------------------------- C9
\* C9: when a pull returns a fault, the accumulator holds no record
\* afterwards, and a chunk emitted by a later pull holds only records that
\* pull read from the source.
SourceFaultDiscards ==
  /\ [](ret.kind = "err" => changes = <<>>)
  /\ [][(PullStep /\ ret.kind = "err" /\ ret'.kind = "chunk")
         => \E k \in 0..Len(iter) :
               ret'.chunk.records = Records(SubSeq(iter, 1, k))]_vars

\* ---------------------------------------------------------------- C10
\* C10: a call whose MAX(seq), MAX(ts) query returned no sequence, with or
\* without a timestamp, returned Ok(None), took no snapshot, called no
\* insert_db and consulted no clock; and no call changes the ledger.
NothingToRegister ==
  /\ []((reg.reached_match /\ reg.info.seq = {}) =>
          /\ reg.ret = [kind |-> "ok_none"]
          /\ reg.snapshots = 0
          /\ reg.inserted = <<>>
          /\ reg.clock_calls = 0)
  /\ [][book' = book]_vars

\* the anomalous case: a timestamp without a sequence, over a ledger that
\* holds versions
NothingToRegisterWitness ==
  /\ reg.reached_match
  /\ reg.info.seq = {}
  /\ reg.info.ts # {}
  /\ reg.ret = [kind |-> "ok_none"]
  /\ book # {}

\* ---------------------------------------------------------------- C11
\* C11: a call that found a sequence for the peeked version v and did not
\* fail took one snapshot, called insert_db once, with the range [v, v],
\* and returned db_version v, the MAX(seq) of the store as last_seq and the
\* snapshot of the ledger with [v, v] inserted; a call returns a result
\* only in that case.
GenuineVersion ==
  /\ (reg.reached_match /\ reg.info.seq # {} /\ reg.ret.kind # "err") =>
        /\ reg.ret.kind = "ok_some"
        /\ reg.snapshots = 1
        /\ reg.inserted = << [start |-> reg.ret.db_version, end |-> reg.ret.db_version] >>
        /\ reg.peek = {reg.ret.db_version}
        /\ reg.info.seq = {reg.ret.last_seq}
        /\ reg.ret.snap = book \cup {reg.ret.db_version}
  /\ reg.ret.kind = "ok_some" => reg.reached_match /\ reg.info.seq # {}

\* a result for a version above the first one that the ledger did not hold
GenuineVersionWitness ==
  /\ reg.ret.kind = "ok_some"
  /\ reg.ret.db_version > 1
  /\ reg.ret.db_version \notin book
  /\ reg.ret.last_seq > 0
  /\ book # {}

\* ---------------------------------------------------------------- C12
\* C12: a call that found a sequence but no timestamp consulted the clock
\* once and, unless insert_db failed, returned a result whose ts is the
\* timestamp the clock minted in that call; a call that found a timestamp
\* did not consult the clock and returned the stored timestamp; a call that
\* reached the match fails only with the fault of insert_db.
MissingTimestampFallback ==
  /\ (reg.reached_match /\ reg.info.seq # {} /\ reg.info.ts = {}) =>
        /\ reg.clock_calls = 1
        /\ clock >= 1
        /\ reg.ret.kind = "ok_some" => reg.ret.ts = clock
  /\ (reg.reached_match /\ reg.info.ts # {}) =>
        /\ reg.clock_calls = 0
        /\ reg.ret.kind = "ok_some" => reg.info.ts = {reg.ret.ts}
  /\ (reg.reached_match /\ reg.ret.kind = "err") =>
        /\ reg.info.seq # {}
        /\ reg.inserted # <<>>
        /\ reg.ret.version = reg.peek

\* the second timestamp of the clock returned for a version without one
MissingTimestampWitness ==
  /\ reg.ret.kind = "ok_some"
  /\ reg.info.ts = {}
  /\ reg.clock_calls = 1
  /\ clock = 2
  /\ reg.ret.ts = 2

\* ---------------------------------------------------------------- C13
\* C13: a call that failed returned a fault with the local actor's identity
\* and, if the peek had returned a version by then, that version; it ran no
\* statement twice and called insert_db at most once.
FailureSemantics ==
  reg.ret.kind = "err" =>
    /\ reg.ret.actor_id = {ActorId}
    /\ reg.ret.version = reg.peek
    /\ \A i \in 1..Len(reg.queried) : \A j \in 1..Len(reg.queried) :
          i # j => reg.queried[i] # reg.queried[j]
    /\ Len(reg.inserted) <= 1

\* ---------------------------------------------------------------- C15
\* C15 as stated: a call ran three statements against the store, all of
\* them read-only.
ThreeReadOnlyQueries ==
  reg.ret.kind # "init" =>
    /\ Len(reg.queried) = 3
    /\ \A i \in 1..Len(reg.queried) : reg.queried[i] \in ReadOnlyQueries

\* C15: the statements a call itself ran against the store are the peek
\* and then the MAX(seq), MAX(ts) query, or a prefix of them when one
\* failed: at most two, both of them once a version was peeked and the
\* second was prepared, all read-only, and both in a call that reached the
\* match.
StoreAccess ==
  reg.ret.kind # "init" =>
    /\ reg.queried \in {<<>>, <<"peek">>, <<"peek", "max">>}
    /\ \A i \in 1..Len(reg.queried) : reg.queried[i] \in ReadOnlyQueries
    /\ reg.reached_match => reg.queried = <<"peek", "max">>
    /\ reg.peek # {} => reg.queried # <<>>
    /\ reg.queried = <<>> => reg.ret.kind = "err"

\* a call that registered a version having run the two SELECTs
StoreAccessWitness ==
  /\ reg.ret.kind = "ok_some"
  /\ reg.queried = <<"peek", "max">>
  /\ reg.inserted # <<>>

\* ---------------------------------------------------------------- C14
\* C14: while a task is inside insert_local_changes it holds the write
\* guard of the ledger, no task holds a read guard and no other task holds
\* the write guard or is inside insert_local_changes.
ExclusiveRegistration ==
  \A p \in Registrars :
     pc[p] = "registering" =>
       /\ lock.writer = {p}
       /\ lock.readers = {}
       /\ \A r \in Readers : pc[r] # "reading"
       /\ \A q \in Registrars \ {p} : pc[q] \notin {"locked", "registering"}

\* a second registration in progress under one guard, after a first one
\* registered a version, with the other tasks waiting
ExclusiveRegistrationWitness ==
  /\ pc["w2"] = "registering"
  /\ reg.ret.kind = "ok_some"
  /\ pc["w1"] = "idle"
  /\ pc["r1"] = "idle"

\* ---------------------------------------------------------------- C16
\* the source has yielded a fault: one of the items consumed so far is one
FaultProduced == \E i \in 1..(Len(input) - Len(iter)) : ~input[i].ok

\* C16: as long as the source has produced no fault the assertion has not
\* failed in any pull: the accumulator is empty whenever the chunker is not
\* done, and holds the records of the final chunk once it is.
AssertionValidity ==
  ~FaultProduced =>
    /\ ~assert_tripped
    /\ ~done => changes = <<>>
    /\ done => emitted # <<>> /\ changes = Last(emitted).records

\* two pulls got past the done check, the second after a split; the final
\* chunk's records are still in the accumulator and a further pull
\* returned None
AssertionValidityWitness ==
  /\ ~FaultProduced
  /\ Len(emitted) >= 2
  /\ done
  /\ changes # <<>>
  /\ ret = [kind |-> "none"]
  /\ ~assert_tripped

\* ---------------------------------------------------------------- C17
\* the j-th record of the i-th emitted chunk alone exceeds the budget of the
\* pull that emitted it
Oversized(i, j) == estimated_byte_size(emitted[i].records[j]) > emitted_max[i]

\* C17 as stated: as long as the source has produced no fault, every record
\* read so far has been emitted, and one that alone exceeds the budget is
\* the only record of its chunk.
OversizedOwnChunk ==
  ~FaultProduced =>
    /\ ConcatRecords(emitted) =
         Records(SubSeq(input, 1, Len(input) - Len(iter)))
    /\ \A i \in 1..Len(emitted) : \A j \in 1..Len(emitted[i].records) :
          Oversized(i, j) => Len(emitted[i].records) = 1

\* C17: as long as the source has produced no fault, every record read so
\* far has been emitted, and one that alone exceeds the budget is the last
\* record of its chunk, hence the only one if the pull read it first.
SoftCeiling ==
  ~FaultProduced =>
    /\ ConcatRecords(emitted) =
         Records(SubSeq(input, 1, Len(input) - Len(iter)))
    /\ \A i \in 1..Len(emitted) : \A j \in 1..Len(emitted[i].records) :
          Oversized(i, j) => j = Len(emitted[i].records)

\* an oversized record emitted behind a record that stayed below the budget
SoftCeilingWitness ==
  /\ ~FaultProduced
  /\ \E i \in 1..Len(emitted) :
        Len(emitted[i].records) = 2 /\ Oversized(i, 2) /\ ~Oversized(i, 1)

\* ---------------------------------------------------------------- C18
\* C18: on a fault-free source of unique ordered sequence numbers of
\* [start_seq, last_seq] no emitted range is inverted and the seq of every
\* record of a chunk lies in the range emitted with it.
RecordsInRange ==
  StreamOfSpan =>
    \A i \in 1..Len(emitted) :
       /\ emitted[i].range.start <= emitted[i].range.end
       /\ \A j \in 1..Len(emitted[i].records) :
             /\ emitted[i].range.start <= emitted[i].records[j].seq
             /\ emitted[i].records[j].seq <= emitted[i].range.end

\* a split chunk and a final chunk of two records each, the first chunk
\* ending at its last record, the final one beyond it
RecordsInRangeWitness ==
  /\ StreamOfSpan
  /\ done
  /\ Len(emitted) = 2
  /\ Len(emitted[1].records) = 2
  /\ Len(emitted[2].records) = 2
  /\ emitted[1].records[2].seq = emitted[1].range.end
  /\ emitted[2].records[2].seq < emitted[2].range.end
\* ---------------------------------------------------------------- C19
\* sum of estimated_byte_size() over a record list
RECURSIVE SizeOf(_)
SizeOf(recs) ==
  IF recs = <<>> THEN 0
  ELSE estimated_byte_size(Head(recs)) + SizeOf(Tail(recs))

\* every pull so far ran under the same budget, of at least one byte
ConstantBudget ==
  \A i \in 1..Len(emitted_max) :
     /\ emitted_max[i] >= 1
     /\ \A j \in 1..Len(emitted_max) : emitted_max[i] = emitted_max[j]

IsFinalChunk(i) == done /\ i = Len(emitted)

AllButLast(recs) == SubSeq(recs, 1, Len(recs) - 1)

\* C19: under a constant budget >= 1 and a source that has produced no
\* fault, after each emission buffered_size is the sum of
\* estimated_byte_size() over the records of the chunk just emitted, every
\* non-final chunk sums to at least the budget, and in every chunk the
\* records before the last sum to less than the budget.
ByteAccounting ==
  (~FaultProduced /\ ConstantBudget) =>
    /\ emitted # <<>> => buffered_size = SizeOf(Last(emitted).records)
    /\ \A i \in 1..Len(emitted) :
          /\ ~IsFinalChunk(i) => SizeOf(emitted[i].records) >= emitted_max[i]
          /\ SizeOf(AllButLast(emitted[i].records)) < emitted_max[i]

\* two chunks under one budget: a split chunk that reached it and a final
\* chunk that stayed below it
ByteAccountingWitness ==
  /\ ~FaultProduced
  /\ ConstantBudget
  /\ done
  /\ Len(emitted) = 2
  /\ emitted[2].records # <<>>
  /\ SizeOf(emitted[2].records) < emitted_max[2]
  /\ buffered_size = SizeOf(emitted[2].records)
\* ---------------------------------------------------------------- C20
\* the final chunk ends at last_seq (line 175); a split chunk ends at a
\* pushed seq that line 137 found different from last_seq
IsFinalRange(i) == emitted[i].range.end = last_seq

MaxOf(a, b) == IF a >= b THEN a ELSE b

\* on a fault-free source of n records: at most max(1, n) chunks so far, no
\* final chunk before end-of-sequence and exactly one, the last emitted,
\* after it, and an empty chunk only from an empty source
ChunkCount ==
  NoFaults(input) =>
    /\ Len(emitted) <= MaxOf(1, Len(input))
    /\ ~done => \A i \in 1..Len(emitted) : ~IsFinalRange(i)
    /\ done => /\ emitted # <<>>
               /\ \A i \in 1..Len(emitted) : IsFinalRange(i) <=> i = Len(emitted)
    /\ \A i \in 1..Len(emitted) : emitted[i].records = <<>> => input = <<>>

\* C20: on a finite fault-free source of n records repeated pulls reach
\* end-of-sequence, having emitted at most max(1, n) chunks, exactly one of
\* them the final chunk, and an empty chunk only when the source yielded no
\* record at all.
TerminationAndChunkCount ==
  /\ []ChunkCount
  /\ NoFaults(input) ~> done

\* a source of two records pulled to its end in as many chunks as records,
\* and pulled once more
TerminationWitness ==
  /\ NoFaults(input)
  /\ Len(input) = 2
  /\ done
  /\ iter = <<>>
  /\ Len(emitted) = Len(input)
  /\ ret.kind = "none"
====
